---- MODULE Spec2Model ----
(***************************************************************************)
(* Model of cli/command_object_verify.go (kopia "object verify").          *)
(*                                                                         *)
(* The main goroutine seeds the work queue (enqueueRootsToVerify) and then *)
(* calls workQueue.Process, which runs the queued closures on NumWorkers   *)
(* goroutines.  Every acquisition of verifier.mu is one atomic step; the   *)
(* code between two acquisitions touches only the goroutine's own locals   *)
(* and is folded into the neighbouring step.  Path labels are diagnostics  *)
(* only and are abstracted to the object identifier.                       *)
(***************************************************************************)
EXTENDS Integers, Sequences, FiniteSets, TLC

----------------------------------------------------------------------------
(* Bounds of the model *)

NumWorkers == 2
MaxThreshold == 2
MaxLength == 1
TicksPerSecond == 4
MaxCount == 3
MaxClockDelay == 1

(* Program constants *)

UnknownLength == -1
RandRange == 100

----------------------------------------------------------------------------
(* The repository the run is pointed at.                                   *)
(* 1 and 2 are directories, 3 and 4 are files; 3 is referenced three       *)
(* times, twice from the same directory.                                   *)
(* 5 is a directory over unrelated subtrees: directories 6 and 7 with two  *)
(* files each (8, 9 and 10, 11) and file 12.                               *)

ObjectIDs == 1..12

BadID == 0

Entry(isDir, oid, size) == [isDir |-> isDir, oid |-> oid, FileSize |-> size]

IsDirObject(oid) == oid \in {1, 2, 5, 6, 7}

Listing(oid) ==
    CASE oid = 1 -> << Entry(FALSE, 3, 1), Entry(TRUE, 2, 0), Entry(FALSE, 3, 1) >>
      [] oid = 2 -> << Entry(FALSE, 3, 1), Entry(FALSE, 4, 0) >>
      [] oid = 5 -> << Entry(TRUE, 6, 0), Entry(TRUE, 7, 0), Entry(FALSE, 12, 1) >>
      [] oid = 6 -> << Entry(FALSE, 8, 0), Entry(FALSE, 9, 1) >>
      [] oid = 7 -> << Entry(FALSE, 10, 1), Entry(FALSE, 11, 0) >>
      [] OTHER   -> << >>

Lengths == 0..MaxLength

(* Readdir: an error, or the entries; an object that is no directory       *)
(* cannot be listed.                                                       *)
ReaddirOutcomes(oid) ==
    IF IsDirObject(oid) THEN {"ok", "err"} ELSE {"err"}

(* VerifyObject: any length, with or without an error. *)
VerifyObjectOutcomes == [length : Lengths, err : BOOLEAN]

(* What the calls return on the repository at hand: any outcome on an     *)
(* arbitrary one; on one with verify faults only, listings succeed and    *)
(* VerifyObject returns the recorded length, with or without an error.    *)
ReaddirResults(world, oid) ==
    IF world = "arbitrary" THEN ReaddirOutcomes(oid)
    ELSE ReaddirOutcomes(oid) \ {"err"}

VerifyObjectResults(world, expectedLength) ==
    IF world = "arbitrary" THEN VerifyObjectOutcomes
    ELSE { o \in VerifyObjectOutcomes :
             o.length = IF expectedLength >= 0 THEN expectedLength ELSE 0 }

(* rand.Intn(n) *)
Intn(n) == 0..(n - 1)

----------------------------------------------------------------------------
(* Command line: snapshot manifests found for the sources, explicit ids.   *)

NoRootEntry == [hasRoot |-> FALSE, isDir |-> FALSE, oid |-> BadID]
RootEntry(isDir, oid) == [hasRoot |-> TRUE, isDir |-> isDir, oid |-> oid]

ManifestChoices ==
    { << >>,
      << NoRootEntry, RootEntry(TRUE, 1) >>,
      << RootEntry(FALSE, 3) >> }

DirIDChoices == { << >>, << 2 >>, << BadID >> }

FileIDChoices == { << >>, << 3 >>, << 2 >>, << BadID >> }

Thresholds == 0..MaxThreshold

Percents == {0, 100}

----------------------------------------------------------------------------
VARIABLES
    storage,                       \* which faults the repository has
    manifests,                     \* what loadSourceManifests returns
    verifyCommandDirObjectIDs,     \* --directory-id
    verifyCommandFileObjectIDs,    \* --file-id
    verifyCommandErrorThreshold,   \* --max-errors
    verifyCommandFilesPercent,     \* --verify-files-percent
    phase,                         \* position of runVerifyCommand
    seedIdx,                       \* loop index inside enqueueRootsToVerify
    seen,                          \* verifier.seen
    errors,                        \* verifier.errors
    workQueue,                     \* verifier.workQueue (pending closures)
    workers,                       \* the goroutines of workQueue.Process
    result,                        \* what runVerifyCommand returns
    verifyCalls,                   \* history: VerifyObject calls per id
    listCalls,                     \* history: Readdir calls per id
    trueReturns,                   \* history: shouldEnqueue = true per id
    enqueuedCount,                 \* history: EnqueueFront/Back calls
    reportCount,                   \* history: reportError calls
    lastRet,                       \* history: << value the last reportError returned >>
    lengthChecked,                 \* history: outcome of each length check
    objectRuns,                    \* history: outcome of each finished doVerifyObject
    dirRuns,                       \* history: children each doVerifyDirectory submitted
    callbackArgs,                  \* arguments and clock readings of the last progressCallback
    statusLine                     \* the line that callback wrote to stderr

vars == << storage, manifests, verifyCommandDirObjectIDs, verifyCommandFileObjectIDs,
           verifyCommandErrorThreshold, verifyCommandFilesPercent,
           phase, seedIdx, seen, errors, workQueue, workers, result,
           verifyCalls, listCalls, trueReturns, enqueuedCount, reportCount,
           lastRet, lengthChecked, objectRuns, dirRuns,
           callbackArgs, statusLine >>

progress == << callbackArgs, statusLine >>

config == << storage, manifests, verifyCommandDirObjectIDs, verifyCommandFileObjectIDs,
             verifyCommandErrorThreshold, verifyCommandFilesPercent >>

Workers == 1..NumWorkers

----------------------------------------------------------------------------
(* Tasks: the closures handed to the work queue. *)

NoTask == [kind |-> "none", oid |-> BadID, expectedLength |-> UnknownLength,
           origin |-> "none"]

DirectoryTask(oid, origin) ==
    [kind |-> "dir", oid |-> oid, expectedLength |-> UnknownLength,
     origin |-> origin]

ObjectTask(oid, expectedLength, origin) ==
    [kind |-> "obj", oid |-> oid, expectedLength |-> expectedLength,
     origin |-> origin]

IdleWorker == [pc |-> "idle", task |-> NoTask, idx |-> 0, length |-> 0,
               err |-> FALSE, late |-> FALSE]

(* parallelwork.Queue *)
EnqueueFront(q, t) == << t >> \o q
EnqueueBack(q, t) == Append(q, t)

----------------------------------------------------------------------------
(* verifier methods *)

tooManyErrorsNoZeroCase(errs, threshold) == Len(errs) >= threshold

tooManyErrorsOffByOne(errs, threshold) ==
    IF threshold = 0 THEN FALSE ELSE Len(errs) > threshold

tooManyErrors(errs, threshold) ==
    IF threshold = 0 THEN FALSE ELSE Len(errs) >= threshold

reportErrorDropOldest(errs, rec) ==
    IF errs = << >> THEN << rec >> ELSE Append(Tail(errs), rec)

reportErrorOverwrite(errs, rec) == << rec >>

reportError(errs, rec) == Append(errs, rec)

reportErrorReturn(errs, threshold) == Len(errs) >= threshold

shouldEnqueueAlways(s, oid) == TRUE

shouldEnqueue(s, oid) == oid \notin s

markSeenForgotten(s, oid) == s

markSeen(s, oid) == s \cup {oid}

enqueueVerifyDirectoryBack(q, t) == EnqueueBack(q, t)

enqueueVerifyDirectory(q, t) == EnqueueFront(q, t)

enqueueVerifyObjectDropped(q, t) == q

enqueueVerifyObject(q, t) == EnqueueBack(q, t)

enqueueTask(q, t) ==
    IF t.kind = "dir" THEN enqueueVerifyDirectory(q, t)
                      ELSE enqueueVerifyObject(q, t)

lengthMismatchNoSentinel(expectedLength, length) == length # expectedLength

lengthMismatchEither(expectedLength, length) ==
    expectedLength >= 0 \/ length # expectedLength

lengthMismatch(expectedLength, length) ==
    expectedLength >= 0 /\ length # expectedLength

(* "for _, e := range entries": the entry after entry i *)
nextIdxSkipping(i) == i + 2

nextIdx(i) == i + 1

(* "if err != nil { reportError; return }" after Readdir *)
readdirNextPcNoReturn(outcome) == "loop"

readdirNextPc(outcome) == IF outcome = "err" THEN "idle" ELSE "loop"

sampleDrawsInclusive(percent) == { r <= percent : r \in Intn(RandRange) }

(* rand.Intn(100) < *verifyCommandFilesPercent, over every draw *)
sampleDraws(percent) == { r < percent : r \in Intn(RandRange) }

childTask(e) ==
    IF e.isDir THEN DirectoryTask(e.oid, "listing")
               ELSE ObjectTask(e.oid, e.FileSize, "listing")

rootTask(man) ==
    IF man.isDir THEN DirectoryTask(man.oid, "root")
                 ELSE ObjectTask(man.oid, UnknownLength, "root")

runResult(errs) ==
    IF Len(errs) = 0 THEN [kind |-> "nil", n |-> 0]
                     ELSE [kind |-> "encountered", n |-> Len(errs)]

NoDirRun == [submitted |-> << >>, stopped |-> 0]

Pending == [kind |-> "pending", n |-> 0]
RootError == [kind |-> "rootError", n |-> 0]

----------------------------------------------------------------------------
(* progressCallback.  Durations are counted in ticks, TicksPerSecond to    *)
(* the second; elapsed is the reading of time.Since and delay is how much  *)
(* later time.Until reads the clock.                                       *)

Counts == 0..MaxCount
ActiveCounts == 0..NumWorkers
ElapsedTimes == 0..(3 * TicksPerSecond)
ClockDelays == 0..MaxClockDelay

NoCall == [enqueued |-> 0, active |-> 0, completed |-> 0, elapsed |-> 0,
           delay |-> 0]

NoLine == [printed |-> FALSE, enqueued |-> 0, active |-> 0, completed |-> 0,
           hasETA |-> FALSE, remaining |-> 0, predictedEnd |-> 0]

Line(enqueued, active, completed, hasETA, remaining, predictedEnd) ==
    [printed |-> TRUE, enqueued |-> enqueued, active |-> active,
     completed |-> completed, hasETA |-> hasETA, remaining |-> remaining,
     predictedEnd |-> predictedEnd]

(* elapsed > 1*time.Second && enqueued > 0 && completed > 0 *)
etaGuard(elapsed, enqueued, completed) ==
    elapsed > TicksPerSecond /\ enqueued > 0 /\ completed > 0

(* time.Duration(elapsed.Seconds() / (completed/enqueued)): the projected  *)
(* total run time, cut to whole seconds by the conversion to Duration.     *)
predictedSeconds(elapsed, enqueued, completed) ==
    (elapsed * enqueued) \div (completed * TicksPerSecond)

(* Duration.Truncate(1*time.Second) of a positive duration, in seconds *)
Truncate(d) == d \div TicksPerSecond

progressCallback(enqueued, active, completed, elapsed, delay) ==
    IF etaGuard(elapsed, enqueued, completed)
    THEN LET predictedEndTime ==
                 predictedSeconds(elapsed, enqueued, completed) * TicksPerSecond
             dt == predictedEndTime - (elapsed + delay)
         IN  IF dt > 0
             THEN Line(enqueued, active, completed, TRUE, Truncate(dt),
                       predictedSeconds(elapsed, enqueued, completed))
             ELSE Line(enqueued, active, completed, FALSE, 0, 0)
    ELSE Line(enqueued, active, completed, FALSE, 0, 0)

(* One invocation of the callback by the scheduler. *)
ProgressCallback ==
    /\ \E enqueued \in Counts, active \in ActiveCounts, completed \in Counts,
          elapsed \in ElapsedTimes, delay \in ClockDelays :
         \* the scheduler's counters and the monotonic clock never go back
         /\ enqueued >= callbackArgs.enqueued
         /\ completed >= callbackArgs.completed
         /\ elapsed >= callbackArgs.elapsed
         /\ callbackArgs' = [enqueued |-> enqueued, active |-> active,
                             completed |-> completed, elapsed |-> elapsed,
                             delay |-> delay]
         /\ statusLine' = progressCallback(enqueued, active, completed,
                                           elapsed, delay)
    /\ UNCHANGED << config, phase, seedIdx, seen, errors, workQueue, workers,
                    result, verifyCalls, listCalls, trueReturns,
                    enqueuedCount, reportCount, lastRet, lengthChecked,
                    objectRuns, dirRuns >>

----------------------------------------------------------------------------
(* Bookkeeping shared by the actions *)

Report(rec) ==
    /\ errors' = reportError(errors, rec)
    /\ reportCount' = reportCount + 1
    /\ lastRet' = << reportErrorReturn(errors', verifyCommandErrorThreshold) >>

NoReport == UNCHANGED << errors, reportCount, lastRet >>

(* enqueueVerifyDirectory / enqueueVerifyObject on the main goroutine,     *)
(* before Process has started any worker.                                  *)
SeedEnqueue(t) ==
    IF shouldEnqueue(seen, t.oid)
    THEN /\ seen' = markSeen(seen, t.oid)
         /\ trueReturns' = [trueReturns EXCEPT ![t.oid] = @ + 1]
         /\ workQueue' = enqueueTask(workQueue, t)
         /\ enqueuedCount' = enqueuedCount + 1
    ELSE UNCHANGED << seen, trueReturns, workQueue, enqueuedCount >>

FailButProcess ==
    /\ phase' = "process"
    /\ result' = RootError

(* "return err" in enqueueRootsToVerify and in runVerifyCommand *)
Fail ==
    /\ phase' = "failed"
    /\ result' = RootError

----------------------------------------------------------------------------
(* The state runVerifyCommand starts from, whatever the command line *)
InitState ==
    /\ phase = "load"
    /\ seedIdx = 1
    /\ seen = {}
    /\ errors = << >>
    /\ workQueue = << >>
    /\ workers = [w \in Workers |-> IdleWorker]
    /\ result = Pending
    /\ verifyCalls = [o \in ObjectIDs |-> 0]
    /\ listCalls = [o \in ObjectIDs |-> 0]
    /\ trueReturns = [o \in ObjectIDs |-> 0]
    /\ enqueuedCount = 0
    /\ reportCount = 0
    /\ lastRet = << >>
    /\ lengthChecked = {}
    /\ objectRuns = {}
    /\ dirRuns = [o \in ObjectIDs |-> NoDirRun]
    /\ callbackArgs = NoCall
    /\ statusLine = NoLine

Init ==
    /\ storage = "arbitrary"
    /\ manifests \in ManifestChoices
    /\ verifyCommandDirObjectIDs \in DirIDChoices
    /\ verifyCommandFileObjectIDs \in FileIDChoices
    /\ verifyCommandErrorThreshold \in Thresholds
    /\ verifyCommandFilesPercent \in Percents
    /\ InitState

(* Unlimited threshold, no sampling, the snapshot rooted at directory 5,   *)
(* with one of its subdirectories and one of its files also given          *)
(* explicitly, on a repository where nothing but VerifyObject fails.       *)
InitUnlimited ==
    /\ storage = "verifyFaultsOnly"
    /\ manifests = << NoRootEntry, RootEntry(TRUE, 5) >>
    /\ verifyCommandDirObjectIDs = << 6 >>
    /\ verifyCommandFileObjectIDs = << 12 >>
    /\ verifyCommandErrorThreshold = 0
    /\ verifyCommandFilesPercent = 0
    /\ InitState

----------------------------------------------------------------------------
(* enqueueRootsToVerify, one loop iteration per step *)

LoadSourceManifestsOK ==
    /\ phase = "load"
    /\ phase' = "manifests"
    /\ UNCHANGED << progress, config, seedIdx, seen, errors, workQueue, workers, result,
                    verifyCalls, listCalls, trueReturns, enqueuedCount,
                    reportCount, lastRet, lengthChecked >>
    /\ UNCHANGED << objectRuns, dirRuns >>

LoadSourceManifestsErr ==
    /\ phase = "load"
    /\ Fail
    /\ UNCHANGED << progress, config, seedIdx, seen, errors, workQueue, workers,
                    verifyCalls, listCalls, trueReturns, enqueuedCount,
                    reportCount, lastRet, lengthChecked >>
    /\ UNCHANGED << objectRuns, dirRuns >>

SeedManifest ==
    /\ phase = "manifests"
    /\ seedIdx <= Len(manifests)
    /\ LET man == manifests[seedIdx] IN
         IF man.hasRoot
         THEN SeedEnqueue(rootTask(man))
         ELSE UNCHANGED << seen, trueReturns, workQueue, enqueuedCount >>
    /\ seedIdx' = seedIdx + 1
    /\ UNCHANGED << progress, config, phase, errors, workers, result, verifyCalls,
                    listCalls, reportCount, lastRet, lengthChecked >>
    /\ UNCHANGED << objectRuns, dirRuns >>

SeedManifestsDone ==
    /\ phase = "manifests"
    /\ seedIdx > Len(manifests)
    /\ phase' = "dirs"
    /\ seedIdx' = 1
    /\ UNCHANGED << progress, config, seen, errors, workQueue, workers, result,
                    verifyCalls, listCalls, trueReturns, enqueuedCount,
                    reportCount, lastRet, lengthChecked >>
    /\ UNCHANGED << objectRuns, dirRuns >>

SeedDirID ==
    /\ phase = "dirs"
    /\ seedIdx <= Len(verifyCommandDirObjectIDs)
    /\ LET oid == verifyCommandDirObjectIDs[seedIdx] IN
         IF oid = BadID
         THEN /\ Fail
              /\ UNCHANGED << seedIdx, seen, trueReturns, workQueue,
                              enqueuedCount >>
         ELSE /\ SeedEnqueue(DirectoryTask(oid, "root"))
              /\ seedIdx' = seedIdx + 1
              /\ UNCHANGED << phase, result >>
    /\ UNCHANGED << progress, config, errors, workers, verifyCalls, listCalls,
                    reportCount, lastRet, lengthChecked >>
    /\ UNCHANGED << objectRuns, dirRuns >>

SeedDirIDsDone ==
    /\ phase = "dirs"
    /\ seedIdx > Len(verifyCommandDirObjectIDs)
    /\ phase' = "files"
    /\ seedIdx' = 1
    /\ UNCHANGED << progress, config, seen, errors, workQueue, workers, result,
                    verifyCalls, listCalls, trueReturns, enqueuedCount,
                    reportCount, lastRet, lengthChecked >>
    /\ UNCHANGED << objectRuns, dirRuns >>

SeedFileID ==
    /\ phase = "files"
    /\ seedIdx <= Len(verifyCommandFileObjectIDs)
    /\ LET oid == verifyCommandFileObjectIDs[seedIdx] IN
         IF oid = BadID
         THEN /\ Fail
              /\ UNCHANGED << seedIdx, seen, trueReturns, workQueue,
                              enqueuedCount >>
         ELSE /\ SeedEnqueue(ObjectTask(oid, UnknownLength, "root"))
              /\ seedIdx' = seedIdx + 1
              /\ UNCHANGED << phase, result >>
    /\ UNCHANGED << progress, config, errors, workers, verifyCalls, listCalls,
                    reportCount, lastRet, lengthChecked >>
    /\ UNCHANGED << objectRuns, dirRuns >>

(* enqueueRootsToVerify returned nil: runVerifyCommand calls Process *)
StartProcess ==
    /\ phase = "files"
    /\ seedIdx > Len(verifyCommandFileObjectIDs)
    /\ phase' = "process"
    /\ UNCHANGED << progress, config, seedIdx, seen, errors, workQueue, workers, result,
                    verifyCalls, listCalls, trueReturns, enqueuedCount,
                    reportCount, lastRet, lengthChecked >>
    /\ UNCHANGED << objectRuns, dirRuns >>

----------------------------------------------------------------------------
(* workQueue.Process: NumWorkers goroutines run the queued closures.       *)

Set(w, rec) == workers' = [workers EXCEPT ![w] = rec]

Goto(w, pc) == Set(w, [workers[w] EXCEPT !.pc = pc])

(* A free goroutine takes the closure at the front of the queue.  The      *)
(* goroutines are interchangeable, so the lowest free one takes it.  For a *)
(* directory closure, late records that the error budget was already       *)
(* exhausted when it began.                                                *)
Dequeue(w) ==
    /\ phase = "process"
    /\ workers[w].pc = "idle"
    /\ \A v \in Workers : v < w => workers[v].pc # "idle"
    /\ workQueue # << >>
    /\ LET t == Head(workQueue) IN
         Set(w, [pc     |-> IF t.kind = "dir" THEN "readdir" ELSE "verify",
                 task   |-> t,
                 idx    |-> 0,
                 length |-> 0,
                 err    |-> FALSE,
                 late   |-> /\ t.kind = "dir"
                            /\ verifyCommandErrorThreshold # 0
                            /\ Len(errors) >= verifyCommandErrorThreshold])
    /\ workQueue' = Tail(workQueue)
    /\ UNCHANGED << progress, config, phase, seedIdx, seen, errors, result, verifyCalls,
                    listCalls, trueReturns, enqueuedCount, reportCount,
                    lastRet, lengthChecked >>
    /\ UNCHANGED << objectRuns, dirRuns >>

(* doVerifyDirectory: Readdir, and reportError when it fails *)
Readdir(w) ==
    /\ workers[w].pc = "readdir"
    /\ LET oid == workers[w].task.oid IN
         /\ listCalls' = [listCalls EXCEPT ![oid] = @ + 1]
         /\ \E outcome \in ReaddirResults(storage, oid) :
              /\ IF outcome = "err"
                 THEN Report([oid |-> oid, kind |-> "readdir"])
                 ELSE NoReport
              /\ IF readdirNextPc(outcome) = "idle"
                 THEN Set(w, IdleWorker)
                 ELSE Set(w, [workers[w] EXCEPT !.pc = "loop", !.idx = 1])
    /\ UNCHANGED << progress, config, phase, seedIdx, seen, workQueue, result,
                    verifyCalls, trueReturns, enqueuedCount, lengthChecked >>
    /\ UNCHANGED << objectRuns, dirRuns >>

(* doVerifyDirectory: head of the loop over the entries, tooManyErrors *)
LoopCheck(w) ==
    /\ workers[w].pc = "loop"
    /\ IF workers[w].idx > Len(Listing(workers[w].task.oid))
       THEN Set(w, IdleWorker)
       ELSE IF tooManyErrors(errors, verifyCommandErrorThreshold)
            THEN Set(w, IdleWorker)
            ELSE Goto(w, "should")
    /\ dirRuns' =
         IF /\ workers[w].idx <= Len(Listing(workers[w].task.oid))
            /\ tooManyErrors(errors, verifyCommandErrorThreshold)
         THEN [dirRuns EXCEPT ![workers[w].task.oid].stopped = workers[w].idx]
         ELSE dirRuns
    /\ UNCHANGED << progress, config, phase, seedIdx, seen, errors, workQueue, result,
                    verifyCalls, listCalls, trueReturns, enqueuedCount,
                    reportCount, lastRet, lengthChecked >>
    /\ UNCHANGED << objectRuns >>

(* enqueueVerifyDirectory / enqueueVerifyObject: shouldEnqueue *)
ShouldEnqueue(w) ==
    /\ workers[w].pc = "should"
    /\ LET e == Listing(workers[w].task.oid)[workers[w].idx] IN
         IF shouldEnqueue(seen, e.oid)
         THEN /\ seen' = markSeen(seen, e.oid)
              /\ trueReturns' = [trueReturns EXCEPT ![e.oid] = @ + 1]
              /\ Goto(w, "enqueue")
         ELSE /\ Set(w, [workers[w] EXCEPT !.pc = "loop", !.idx = nextIdx(@)])
              /\ UNCHANGED << seen, trueReturns >>
    /\ dirRuns' = [dirRuns EXCEPT ![workers[w].task.oid].submitted =
                                    Append(@, workers[w].idx)]
    /\ UNCHANGED << progress, config, phase, seedIdx, errors, workQueue, result,
                    verifyCalls, listCalls, enqueuedCount, reportCount,
                    lastRet, lengthChecked >>
    /\ UNCHANGED << objectRuns >>

(* enqueueVerifyDirectory / enqueueVerifyObject: EnqueueFront / EnqueueBack *)
Enqueue(w) ==
    /\ workers[w].pc = "enqueue"
    /\ LET e == Listing(workers[w].task.oid)[workers[w].idx] IN
         workQueue' = enqueueTask(workQueue, childTask(e))
    /\ enqueuedCount' = enqueuedCount + 1
    /\ Set(w, [workers[w] EXCEPT !.pc = "loop", !.idx = nextIdx(@)])
    /\ UNCHANGED << progress, config, phase, seedIdx, seen, errors, result, verifyCalls,
                    listCalls, trueReturns, reportCount, lastRet,
                    lengthChecked >>
    /\ UNCHANGED << objectRuns, dirRuns >>

(* doVerifyObject: VerifyObject, and reportError when it fails *)
VerifyObject(w) ==
    /\ workers[w].pc = "verify"
    /\ LET oid == workers[w].task.oid IN
         /\ verifyCalls' = [verifyCalls EXCEPT ![oid] = @ + 1]
         /\ \E outcome \in VerifyObjectResults(storage,
                                                  workers[w].task.expectedLength) :
              /\ Set(w, [workers[w] EXCEPT !.pc = "length",
                                           !.length = outcome.length,
                                           !.err = outcome.err])
              /\ IF outcome.err
                 THEN Report([oid |-> oid, kind |-> "verify"])
                 ELSE NoReport
    /\ UNCHANGED << progress, config, phase, seedIdx, seen, workQueue, result,
                    listCalls, trueReturns, enqueuedCount, lengthChecked >>
    /\ UNCHANGED << objectRuns, dirRuns >>

(* doVerifyObject: the length comparison *)
CheckLength(w) ==
    /\ workers[w].pc = "length"
    /\ LET t == workers[w].task
           mismatch == lengthMismatch(t.expectedLength, workers[w].length)
       IN /\ IF mismatch
             THEN Report([oid |-> t.oid, kind |-> "length"])
             ELSE NoReport
          /\ lengthChecked' = lengthChecked \cup
                 {[oid |-> t.oid, origin |-> t.origin,
                   expectedLength |-> t.expectedLength,
                   length |-> workers[w].length, reported |-> mismatch]}
    /\ Goto(w, "sample")
    /\ UNCHANGED << progress, config, phase, seedIdx, seen, workQueue, result,
                    verifyCalls, listCalls, trueReturns, enqueuedCount >>
    /\ UNCHANGED << objectRuns, dirRuns >>

(* doVerifyObject: the sampled readEntireObject *)
Sample(w) ==
    /\ workers[w].pc = "sample"
    /\ \E sampled \in sampleDraws(verifyCommandFilesPercent) :
         \E readErr \in IF sampled THEN BOOLEAN ELSE {FALSE} :
            /\ IF sampled /\ readErr
               THEN Report([oid |-> workers[w].task.oid, kind |-> "read"])
               ELSE NoReport
            /\ objectRuns' = objectRuns \cup
                   {[oid |-> workers[w].task.oid,
                     origin |-> workers[w].task.origin,
                     expectedLength |-> workers[w].task.expectedLength,
                     length |-> workers[w].length,
                     err |-> workers[w].err,
                     sampled |-> sampled,
                     readErr |-> readErr]}
    /\ Set(w, IdleWorker)
    /\ UNCHANGED << progress, config, phase, seedIdx, seen, workQueue, result,
                    verifyCalls, listCalls, trueReturns, enqueuedCount,
                    lengthChecked >>
    /\ UNCHANGED << dirRuns >>

(* Process returns once the queue is drained and no closure is running;    *)
(* runVerifyCommand then builds its result from verifier.errors.           *)
ProcessDone ==
    /\ phase = "process"
    /\ workQueue = << >>
    /\ \A w \in Workers : workers[w].pc = "idle"
    /\ phase' = "done"
    /\ result' = runResult(errors)
    /\ UNCHANGED << progress, config, seedIdx, seen, errors, workQueue, workers,
                    verifyCalls, listCalls, trueReturns, enqueuedCount,
                    reportCount, lastRet, lengthChecked >>
    /\ UNCHANGED << objectRuns, dirRuns >>

----------------------------------------------------------------------------
Next ==
    \/ LoadSourceManifestsOK
    \/ LoadSourceManifestsErr
    \/ SeedManifest
    \/ SeedManifestsDone
    \/ SeedDirID
    \/ SeedDirIDsDone
    \/ SeedFileID
    \/ StartProcess
    \/ \E w \in Workers : Dequeue(w)
    \/ \E w \in Workers : Readdir(w)
    \/ \E w \in Workers : LoopCheck(w)
    \/ \E w \in Workers : ShouldEnqueue(w)
    \/ \E w \in Workers : Enqueue(w)
    \/ \E w \in Workers : VerifyObject(w)
    \/ \E w \in Workers : CheckLength(w)
    \/ \E w \in Workers : Sample(w)
    \/ ProcessDone

Spec == Init /\ [][Next]_vars

SpecUnlimited == InitUnlimited /\ [][Next]_vars

ProgressSpec == InitUnlimited /\ [][ProgressCallback]_vars

(* The Go scheduler lets every runnable goroutine take its next step, and  *)
(* every external call returns.                                            *)
FairSpec == Init /\ [][Next]_vars /\ WF_vars(Next)

----------------------------------------------------------------------------
(* Properties *)

Threshold == verifyCommandErrorThreshold

ActiveWorkers == { w \in Workers : workers[w].pc # "idle" }

CurrentEntry(w) == Listing(workers[w].task.oid)[workers[w].idx]

NoListingFailure == \A i \in DOMAIN errors : errors[i].kind # "readdir"

(* C1: every object identifier is passed to VerifyObject at most once, in  *)
(* every run and under every interleaving of the workers, however many     *)
(* roots or directory entries reference it.                                *)
C1_VerifyAtMostOnce == \A o \in ObjectIDs : verifyCalls[o] <= 1

(* Object 3, referenced by three entries of two directories that were both *)
(* expanded in full, has been verified and the run is over.                *)
C1_Witness ==
    /\ phase = "done"
    /\ Threshold = 0
    /\ NoListingFailure
    /\ listCalls[1] = 1
    /\ listCalls[2] = 1
    /\ verifyCalls[3] = 1

(* C2 as claimed: exactly one shouldEnqueue call per identifier returns    *)
(* true, and in every state the number of tasks enqueued so far equals the *)
(* size of the visited set.                                                *)
C2_EnqueuedEqualsSeen ==
    /\ \A o \in ObjectIDs : trueReturns[o] <= 1
    /\ enqueuedCount = Cardinality(seen)

(* C2 amended: exactly one shouldEnqueue call per identifier returns true, *)
(* no identifier is queued twice, and the number of tasks enqueued so far  *)
(* is the size of the visited set less the callers that have had true      *)
(* returned and have not yet reached EnqueueFront / EnqueueBack.           *)
C2_AtomicShouldEnqueue ==
    /\ \A o \in ObjectIDs : trueReturns[o] = IF o \in seen THEN 1 ELSE 0
    /\ \A i, j \in DOMAIN workQueue :
         i # j => workQueue[i].oid # workQueue[j].oid
    /\ enqueuedCount
         + Cardinality({ w \in Workers : workers[w].pc = "enqueue" })
         = Cardinality(seen)
    /\ (\A w \in Workers : workers[w].pc # "enqueue")
         => enqueuedCount = Cardinality(seen)

(* Two directory tasks run side by side and both reach the entry for       *)
(* object 3: one had true returned and is about to enqueue, the other had  *)
(* false returned and moved on.                                            *)
C2_Witness ==
    \E w, v \in Workers :
        /\ w # v
        /\ workers[w].pc = "enqueue"
        /\ CurrentEntry(w).oid = 3
        /\ workers[v].task.kind = "dir"
        /\ workers[v].task.oid = 2
        /\ workers[v].idx = 2
        /\ trueReturns[3] = 1

(* C3 as claimed: reportError appends exactly one record and returns       *)
(* whether the threshold is reached, which is never the case for threshold *)
(* 0 and, for a threshold T > 0, the case exactly when the count after the *)
(* append is at least T.                                                   *)
C3_ReportErrorReturn ==
    /\ Len(errors) = reportCount
    /\ lastRet # << >> =>
         lastRet[1] = (Threshold # 0 /\ Len(errors) >= Threshold)

(* C4 as claimed: tooManyErrors is false for threshold 0, true for a       *)
(* threshold T > 0 exactly when the count is at least T, and right after a *)
(* reportError it gives what that reportError returned.                    *)
C4_TooManyErrorsAgrees ==
    /\ tooManyErrors(errors, Threshold)
         = (Threshold # 0 /\ Len(errors) >= Threshold)
    /\ lastRet # << >> => tooManyErrors(errors, Threshold) = lastRet[1]

(* C5: a directory task that begins once the failure count has reached a   *)
(* nonzero threshold never gets to shouldEnqueue or to the queue: it adds  *)
(* nothing to the visited set and enqueues no child.                       *)
C5_ThresholdMonotonicity ==
    \A w \in Workers :
        workers[w].late => workers[w].pc \notin {"should", "enqueue"}

(* A directory task that began after the threshold was reached has listed  *)
(* its directory and stands before its first child, while the failure      *)
(* count has gone beyond the threshold.                                    *)
C5_Witness ==
    \E w \in Workers :
        /\ workers[w].late
        /\ workers[w].pc = "loop"
        /\ workers[w].idx = 1
        /\ Len(errors) > Threshold

(* C6: at Done the result is success exactly when the failure list is      *)
(* empty, and otherwise one aggregate error whose count is the number of   *)
(* reportError calls of the run.                                           *)
C6_AggregateResult ==
    phase = "done" =>
        /\ result.kind \in {"nil", "encountered"}
        /\ result.kind = "nil" <=> errors = << >>
        /\ result.kind = "nil" <=> reportCount = 0
        /\ result.kind = "encountered" => result.n = reportCount

(* A run ends with an aggregate error counting three reports. *)
C6_Witness ==
    /\ phase = "done"
    /\ result.kind = "encountered"
    /\ result.n = 3
    /\ reportCount = 3

Kind(isDir) == IF isDir THEN "dir" ELSE "obj"

(* The roots of the run, each with the kind it is declared as. *)
SeededRoots ==
    { << Kind(manifests[i].isDir), manifests[i].oid >> :
        i \in { j \in DOMAIN manifests : manifests[j].hasRoot } }
      \cup { << "dir", verifyCommandDirObjectIDs[i] >> :
               i \in DOMAIN verifyCommandDirObjectIDs }
      \cup { << "obj", verifyCommandFileObjectIDs[i] >> :
               i \in DOMAIN verifyCommandFileObjectIDs }

(* What the object graph reaches from a set of <<kind, id>> pairs: the     *)
(* entries of every directory reached as a directory, each with the kind   *)
(* its file mode gives it.                                                 *)
RECURSIVE ReachableFrom(_)
ReachableFrom(P) ==
    LET Q == P \cup UNION { { << Kind(Listing(p[2])[i].isDir),
                                Listing(p[2])[i].oid >> :
                              i \in DOMAIN Listing(p[2]) } :
                            p \in { q \in P : q[1] = "dir" /\ IsDirObject(q[2]) } }
    IN IF Q = P THEN P ELSE ReachableFrom(Q)

(* C7 as claimed: with threshold 0 and no listing failure, at Done every   *)
(* non-directory object reachable from the seeded roots has been passed to *)
(* VerifyObject exactly once and every reachable directory has been listed *)
(* exactly once.  (An identifier reached only under the kind it is not is  *)
(* left out of the statement.)                                             *)
C7_ExactlyOnce ==
    (phase = "done" /\ Threshold = 0 /\ NoListingFailure) =>
        \A p \in ReachableFrom(SeededRoots) :
            /\ (p[1] = "dir" /\ IsDirObject(p[2])) => listCalls[p[2]] = 1
            /\ (p[1] = "obj" /\ ~IsDirObject(p[2])) => verifyCalls[p[2]] = 1

IsDirTask(t) == t.kind = "dir"

(* C8: in every state the queue holds its directory tasks ahead of its     *)
(* object tasks, so the task the scheduler takes next is a directory task  *)
(* whenever one is pending.                                                *)
C8_DirectoriesFirst ==
    \A i, j \in DOMAIN workQueue :
        (i < j /\ IsDirTask(workQueue[j])) => IsDirTask(workQueue[i])

(* Directory 2 was discovered after object 3 during the expansion of       *)
(* directory 1 and is queued ahead of it.                                  *)
C8_Witness ==
    /\ Len(workQueue) = 2
    /\ workQueue[1] = DirectoryTask(2, "listing")
    /\ workQueue[2] = ObjectTask(3, 1, "listing")

HeldTasks ==
    { workQueue[i] : i \in DOMAIN workQueue }
      \cup { workers[w].task : w \in ActiveWorkers }

(* C9: an object task made from a snapshot root or an explicit identifier  *)
(* carries the unknown length and reports no length mismatch whatever      *)
(* length VerifyObject returns; an object task made from a listing entry   *)
(* carries that entry's size and reports a mismatch exactly when the       *)
(* returned length differs from it.                                        *)
C9_Sentinel ==
    /\ \A t \in HeldTasks :
         t.kind = "obj" =>
           /\ t.origin = "root" => t.expectedLength = UnknownLength
           /\ t.origin = "listing" =>
                /\ t.expectedLength >= 0
                /\ \E d \in ObjectIDs : \E i \in DOMAIN Listing(d) :
                     /\ Listing(d)[i].oid = t.oid
                     /\ Listing(d)[i].FileSize = t.expectedLength
    /\ \A c \in lengthChecked :
         /\ c.origin = "root" => ~c.reported
         /\ c.origin = "listing" =>
              (c.reported <=> c.length # c.expectedLength)

(* One run has checked a root object without reporting, whatever length    *)
(* came back, and a listed object whose length differed, with a report.    *)
C9_Witness ==
    /\ \E c \in lengthChecked :
         c.origin = "root" /\ c.length = MaxLength /\ ~c.reported
    /\ \E c \in lengthChecked :
         c.origin = "listing" /\ c.length # c.expectedLength /\ c.reported

(* C10: a root-resolution failure ends the run with that error at once:    *)
(* the run has that result exactly in the failed state, where no worker    *)
(* was started, no Readdir or VerifyObject call was made and the failure   *)
(* list is empty.                                                          *)
C10_RootFailureFatal ==
    /\ result = RootError <=> phase = "failed"
    /\ phase = "failed" =>
         /\ ActiveWorkers = {}
         /\ \A o \in ObjectIDs : verifyCalls[o] = 0 /\ listCalls[o] = 0
         /\ errors = << >>
         /\ reportCount = 0

(* An explicit identifier failed to parse after a root had already been    *)
(* queued; the queued task is never run.                                   *)
C10_Witness ==
    /\ phase = "failed"
    /\ workQueue # << >>

ListedInFull(d) ==
    /\ listCalls[d] = 1
    /\ \A i \in DOMAIN errors : ~(errors[i].oid = d /\ errors[i].kind = "readdir")

Executions(o) == verifyCalls[o] + listCalls[o]

OnlyVerifyFailures == \A i \in DOMAIN errors : errors[i].kind = "verify"

VerifyFailed == { r.oid : r \in { q \in objectRuns : q.err } }

(* C11: with threshold 0 nothing stops early: at Done every child of every *)
(* listed directory was scheduled and every scheduled task has run; and    *)
(* when only VerifyObject failed, the aggregate error counts exactly the   *)
(* objects for which it failed.                                            *)
C11_UnlimitedThreshold ==
    (phase = "done" /\ Threshold = 0) =>
        /\ \A d \in ObjectIDs :
             ListedInFull(d) =>
               \A i \in DOMAIN Listing(d) : Listing(d)[i].oid \in seen
        /\ \A o \in seen : Executions(o) = 1
        /\ OnlyVerifyFailures =>
             /\ result.n = Cardinality(VerifyFailed)
             /\ result.kind = IF VerifyFailed = {} THEN "nil" ELSE "encountered"

(* Scenario E: VerifyObject failed for the five files 8..12 of unrelated   *)
(* subtrees and nothing else failed; the run is over and reports 5.        *)
C11_Witness ==
    /\ phase = "done"
    /\ Threshold = 0
    /\ OnlyVerifyFailures
    /\ VerifyFailed = {8, 9, 10, 11, 12}
    /\ result = [kind |-> "encountered", n |-> 5]

Records(o, k) ==
    Cardinality({ i \in DOMAIN errors : errors[i].oid = o /\ errors[i].kind = k })

Count(b) == IF b THEN 1 ELSE 0

Mismatch(r) == r.expectedLength >= 0 /\ r.length # r.expectedLength

(* C12: a finished object task has left one verification failure exactly   *)
(* when VerifyObject erred, one length-mismatch failure exactly when its   *)
(* expected length is known and differs from the returned one, and one     *)
(* deep-read failure exactly when it was sampled and the read erred; the   *)
(* draw alone decides the sampling, whatever the shallow checks found.     *)
C12_IndependentChecks ==
    \A r \in objectRuns :
        /\ Records(r.oid, "verify") = Count(r.err)
        /\ Records(r.oid, "length") = Count(Mismatch(r))
        /\ Records(r.oid, "read") = Count(r.sampled /\ r.readErr)
        /\ r.sampled \in sampleDraws(verifyCommandFilesPercent)

(* One object task failed all three checks and left three records. *)
C12_Witness ==
    \E r \in objectRuns :
        /\ r.err /\ Mismatch(r) /\ r.sampled /\ r.readErr
        /\ Records(r.oid, "verify") = 1
        /\ Records(r.oid, "length") = 1
        /\ Records(r.oid, "read") = 1

(* C13: with percentage 100 every finished object task made the deep read  *)
(* and with percentage 0 none did; an object that passed VerifyObject with *)
(* the recorded length and failed the deep read has left exactly one       *)
(* failure record, the deep-read one.                                      *)
C13_Sampling ==
    \A r \in objectRuns :
        /\ verifyCommandFilesPercent = 100 => r.sampled
        /\ verifyCommandFilesPercent = 0 => ~r.sampled
        /\ (~r.err /\ ~Mismatch(r) /\ r.sampled /\ r.readErr) =>
             /\ Records(r.oid, "read") = 1
             /\ { i \in DOMAIN errors : errors[i].oid = r.oid /\ errors[i].kind # "read" } = {}

(* Scenario C: sampling 100, a listed file with the recorded length whose  *)
(* deep read fails; the run ends with that single failure.                 *)
C13_Witness ==
    /\ phase = "done"
    /\ verifyCommandFilesPercent = 100
    /\ \E r \in objectRuns :
         /\ r.origin = "listing"
         /\ ~r.err /\ r.length = r.expectedLength /\ r.readErr
         /\ errors = << [oid |-> r.oid, kind |-> "read"] >>
    /\ result = [kind |-> "encountered", n |-> 1]

ListingFailed(d) ==
    \E i \in DOMAIN errors : errors[i].oid = d /\ errors[i].kind = "readdir"

(* C14: a directory whose listing failed has exactly one failure record,   *)
(* its task has submitted no child and is past; and the tasks scheduled    *)
(* by others have all run when the run is over.                            *)
C14_ListingFailure ==
    /\ \A d \in ObjectIDs :
         ListingFailed(d) =>
           /\ Records(d, "readdir") = 1
           /\ dirRuns[d].submitted = << >>
           /\ \A w \in Workers : workers[w].task.oid # d
    /\ phase = "done" => \A o \in seen : Executions(o) = 1

(* Directory 2 could not be listed: file 4, which only it names, was never *)
(* scheduled, while its sibling file 3 and the rest of the run went on.    *)
C14_Witness ==
    /\ phase = "done"
    /\ ListingFailed(2)
    /\ ~ListingFailed(1)
    /\ listCalls[1] = 1
    /\ verifyCalls[3] = 1
    /\ 4 \notin seen

Drained ==
    /\ phase = "done"
    /\ workQueue = << >>
    /\ ActiveWorkers = {}
    /\ enqueuedCount = Cardinality(seen)

PhaseOrder ==
    << phase, phase' >> \in
        { << "load", "manifests" >>, << "manifests", "dirs" >>,
          << "dirs", "files" >>, << "files", "process" >>,
          << "process", "done" >>,
          << "load", "failed" >>, << "dirs", "failed" >>,
          << "files", "failed" >> }
    \/ phase' = phase

(* C15 as claimed: the run never stops short of Done. *)
C15_ReachesDone == phase = "done" \/ ENABLED Next

(* C15 amended: the run moves through seeding and draining in order and    *)
(* ends; unless root resolution fails, in which case it ends there, it     *)
(* starts draining, and once it drains the queue becomes empty with no     *)
(* active task, each identifier enqueued once, and the run reaches Done.   *)
C15_Termination ==
    /\ [][PhaseOrder]_vars
    /\ <>(phase \in {"done", "failed"})
    /\ (phase = "process") ~> Drained

(* A run is over after draining a queue that held every object of the      *)
(* graph under directory 1.                                                *)
C15_Witness ==
    /\ Drained
    /\ seen = {1, 2, 3, 4}

(* C16 as claimed: every task that has been enqueued is executed exactly   *)
(* once by the time the run has stopped.                                   *)
C16_EveryEnqueuedTaskRuns ==
    (phase \in {"done", "failed"}) => \A o \in seen : Executions(o) = 1

(* C16 amended: once Process has started, every scheduled task is executed *)
(* exactly once, whatever the failure count; tasks queued by a seeding     *)
(* that then fails are never run.                                          *)
C16_NoCancellation ==
    /\ [](\A o \in ObjectIDs : Executions(o) <= 1)
    /\ (phase = "process") ~>
         (phase = "done" /\ \A o \in seen : Executions(o) = 1)

(* An object task is being run although the failure count is already      *)
(* beyond a nonzero threshold.                                             *)
C16_Witness ==
    \E w \in Workers :
        /\ workers[w].pc = "verify"
        /\ Threshold > 0
        /\ Len(errors) > Threshold

(* A scheduled identifier is accounted for: about to be enqueued, queued,  *)
(* held by a worker, or executed.                                          *)
Accounted(o) ==
    \/ \E w \in Workers : workers[w].pc = "enqueue" /\ CurrentEntry(w).oid = o
    \/ \E i \in DOMAIN workQueue : workQueue[i].oid = o
    \/ \E w \in ActiveWorkers : workers[w].task.oid = o
    \/ Executions(o) = 1

(* C17: the children a directory task has passed to shouldEnqueue are the  *)
(* first k entries of the listing, in the listing's order and each once;   *)
(* when it found the budget exhausted before entry s, k = s - 1 and it     *)
(* submits nothing more; every child submitted stays scheduled.            *)
C17_PrefixOfListing ==
    \A d \in ObjectIDs :
        LET r == dirRuns[d] IN
        /\ r.submitted = [i \in 1..Len(r.submitted) |-> i]
        /\ Len(r.submitted) <= Len(Listing(d))
        /\ r.stopped # 0 =>
             /\ Len(r.submitted) = r.stopped - 1
             /\ \A w \in Workers : workers[w].task.oid # d
        /\ \A i \in 1..Len(r.submitted) :
             LET c == Listing(d)[r.submitted[i]].oid IN
             /\ c \in seen
             /\ trueReturns[c] = 1
             /\ Accounted(c)

(* Directory 1 found the budget exhausted before its third entry: its      *)
(* first two children were submitted and have run, the third never was.    *)
C17_Witness ==
    /\ phase = "done"
    /\ dirRuns[1] = [submitted |-> << 1, 2 >>, stopped |-> 3]
    /\ Executions(2) = 1
    /\ Executions(3) = 1

(* enqueueRootsToVerify has run through its three loops without error. *)
SeedingComplete ==
    /\ phase = "files"
    /\ seedIdx > Len(verifyCommandFileObjectIDs)

QueuedAs(t) == { j \in DOMAIN workQueue : workQueue[j] = t }

(* C18 as claimed: when seeding has completed, every manifest with a root  *)
(* entry has its root queued as a task of the recorded kind, every         *)
(* directory identifier is queued as a directory task, every file          *)
(* identifier is queued as exactly one object task with unknown expected   *)
(* length, and nothing else is queued.                                     *)
C18_SeededByDeclaredKind ==
    SeedingComplete =>
        /\ \A i \in DOMAIN manifests :
             manifests[i].hasRoot => QueuedAs(rootTask(manifests[i])) # {}
        /\ \A i \in DOMAIN verifyCommandDirObjectIDs :
             QueuedAs(DirectoryTask(verifyCommandDirObjectIDs[i], "root")) # {}
        /\ \A i \in DOMAIN verifyCommandFileObjectIDs :
             Cardinality(QueuedAs(ObjectTask(verifyCommandFileObjectIDs[i],
                                             UnknownLength, "root"))) = 1
        /\ \A j \in DOMAIN workQueue :
             << workQueue[j].kind, workQueue[j].oid >> \in SeededRoots

(* C19: every step leaves the failure records already in the list where    *)
(* they are and unchanged, so the list only grows at its end and its       *)
(* length never decreases; with a nonzero threshold a step never takes     *)
(* tooManyErrors from true back to false.                                  *)
C19_AppendOnly ==
    [][ /\ Len(errors') >= Len(errors)
        /\ SubSeq(errors', 1, Len(errors)) = errors
        /\ (Threshold > 0 /\ tooManyErrors(errors, Threshold))
              => tooManyErrors(errors', Threshold) ]_vars

(* Two more records were appended after a threshold of 1 was reached. *)
C19_Witness ==
    /\ phase = "done"
    /\ Threshold = 1
    /\ Len(errors) = 3
    /\ tooManyErrors(errors, Threshold)

(* elapsed / (completed/enqueued) - elapsed, in ticks, times completed *)
ProjectedRemaining(a) == a.elapsed * (a.enqueued - a.completed)

EnoughSignal(a) ==
    a.elapsed > TicksPerSecond /\ a.enqueued > 0 /\ a.completed > 0

CountsPrinted ==
    /\ statusLine.enqueued = callbackArgs.enqueued
    /\ statusLine.active = callbackArgs.active
    /\ statusLine.completed = callbackArgs.completed

(* C20 as claimed: a printed line carries the three counts; it has an ETA  *)
(* only when elapsed > 1s, enqueued > 0 and completed > 0; the remaining   *)
(* time it shows (whole seconds, clock read once) is                       *)
(* elapsed / (completed/enqueued) - elapsed; and it has no ETA when that   *)
(* projection is non-positive.                                             *)
C20_ETAByFormula ==
    statusLine.printed =>
        LET a == callbackArgs IN
        /\ CountsPrinted
        /\ statusLine.hasETA => EnoughSignal(a)
        /\ (statusLine.hasETA /\ a.delay = 0) =>
             statusLine.remaining =
                 ProjectedRemaining(a) \div (a.completed * TicksPerSecond)
        /\ (EnoughSignal(a) /\ ProjectedRemaining(a) <= 0) => ~statusLine.hasETA

====
